---- MODULE Spec2Model ----
(***************************************************************************)
(* Model of Lead_scoring_training_pipeline/utils.py: encode_features and   *)
(* get_trained_model.                                                      *)
(*                                                                         *)
(* A DataFrame is a record [columns, n, data]: columns is the sequence of  *)
(* column names, n the length of its RangeIndex and data[i] the vector of  *)
(* the cells of columns[i].  Cells are strings: "0" and "1" are the        *)
(* numbers 0 and 1 as SQLite stores them, NaN is the missing value.        *)
(***************************************************************************)
EXTENDS Naturals, Sequences, FiniteSets, TLC

VARIABLES config, db, df, ret, replaced, runs, registry, trainer

vars == <<config, db, df, ret, replaced, runs, registry, trainer>>

(***************************************************************************)
(* Bounds                                                                  *)
(***************************************************************************)
MaxRows == 2
MaxLabels == 4
MaxInvocations == 2

NaN == "NaN"
LABEL == "app_complete_flag"

(***************************************************************************)
(* pandas                                                                  *)
(***************************************************************************)
Max(a, b) == IF a >= b THEN a ELSE b

\* pd.DataFrame(): no column, no row.
EmptyFrame == [columns |-> <<>>, n |-> 0, data |-> <<>>]

\* pd.DataFrame(columns = names): the named columns, no row.
DataFrame(names) ==
    [columns |-> names, n |-> 0, data |-> [i \in 1..Len(names) |-> <<>>]]

\* feature in frame.columns
HasColumn(frame, name) == \E i \in 1..Len(frame.columns) : frame.columns[i] = name

\* frame[name]
GetColumn(frame, name) ==
    frame.data[CHOOSE i \in 1..Len(frame.columns) : frame.columns[i] = name]

\* A vector conformed to an index of n rows: rows it lacks are NaN.
Reindex(vec, n) == [i \in 1..n |-> IF i <= Len(vec) THEN vec[i] ELSE NaN]

\* The values get_dummies can meet, in the sorted order of its columns.
SortedValues == <<"7", "A", "B", "X", "Y">>

\* get_dummies with drop_first = True: the first observed value gets no column.
get_dummies_dropfirst(series) ==
    LET observed == SelectSeq(SortedValues,
                        LAMBDA v : \E i \in 1..Len(series) : series[i] = v)
        kept     == IF observed = <<>> THEN <<>> ELSE Tail(observed)
    IN [columns |-> kept,
        n       |-> Len(series),
        data    |-> [k \in 1..Len(kept) |->
                       [i \in 1..Len(series) |->
                          IF series[i] = kept[k] THEN "1" ELSE "0"]]]

\* pd.get_dummies(series): one indicator column per distinct observed
\* non-null value, named by the value.
get_dummies(series) ==
    LET observed == SelectSeq(SortedValues,
                        LAMBDA v : \E i \in 1..Len(series) : series[i] = v)
    IN [columns |-> observed,
        n       |-> Len(series),
        data    |-> [k \in 1..Len(observed) |->
                       [i \in 1..Len(series) |->
                          IF series[i] = observed[k] THEN "1" ELSE "0"]]]

\* frame.add_prefix(prefix)
add_prefix(frame, prefix) ==
    [frame EXCEPT !.columns = [i \in 1..Len(frame.columns) |-> prefix \o frame.columns[i]]]

\* pd.concat([a, b], axis = 1): outer join on the row index.
concat(a, b) ==
    LET n == Max(a.n, b.n)
    IN [columns |-> a.columns \o b.columns,
        n       |-> n,
        data    |-> [i \in 1..Len(a.data) |-> Reindex(a.data[i], n)]
                    \o [i \in 1..Len(b.data) |-> Reindex(b.data[i], n)]]

\* frame[name] = series that never gives the frame the index of the series.
SetColumn_keepindex(frame, name, series) ==
    [columns |-> frame.columns,
     n       |-> frame.n,
     data    |-> [i \in 1..Len(frame.columns) |->
                    IF frame.columns[i] = name
                    THEN Reindex(series, frame.n)
                    ELSE frame.data[i]]]

\* frame[name] = series.  A frame without rows takes the index of a
\* non-empty series; otherwise the series is aligned on the frame's index.
SetColumn(frame, name, series) ==
    LET n == IF frame.n = 0 /\ Len(series) > 0 THEN Len(series) ELSE frame.n
    IN  IF HasColumn(frame, name)
        THEN [columns |-> frame.columns,
              n       |-> n,
              data    |-> [i \in 1..Len(frame.columns) |->
                             IF frame.columns[i] = name
                             THEN Reindex(series, n)
                             ELSE Reindex(frame.data[i], n)]]
        ELSE [columns |-> Append(frame.columns, name),
              n       |-> n,
              data    |-> [i \in 1..Len(frame.columns) |-> Reindex(frame.data[i], n)]
                          \o <<Reindex(series, n)>>]

\* frame.fillna(value) without inplace = True: the frame keeps its nulls.
fillna_notinplace(frame, value) == frame

\* frame.fillna(value)
fillna(frame, value) ==
    [frame EXCEPT !.data = [i \in 1..Len(frame.data) |->
                              [r \in 1..Len(frame.data[i]) |->
                                 IF frame.data[i][r] = NaN THEN value
                                 ELSE frame.data[i][r]]]]

\* frame.drop(name, axis = 1)
drop(frame, name) ==
    LET keep == SelectSeq([i \in 1..Len(frame.columns) |-> i],
                          LAMBDA i : frame.columns[i] # name)
    IN [columns |-> [k \in 1..Len(keep) |-> frame.columns[keep[k]]],
        n       |-> frame.n,
        data    |-> [k \in 1..Len(keep) |-> frame.data[keep[k]]]]

\* frame[name] as a Series written out as a one-column table.
SeriesFrame(frame, name) ==
    [columns |-> <<name>>, n |-> frame.n, data |-> <<GetColumn(frame, name)>>]

(***************************************************************************)
(* The SQLite store: a table is <<>> when absent, <<frame>> when present.  *)
(* replaced tells whether the last call's writes found tables to replace.   *)
(***************************************************************************)
NoTable == <<>>

\* The store before any encode: neither table exists.
FreshStoreTables == [features |-> NoTable, target |-> NoTable]

\* frame.to_sql(name, conn, if_exists = 'append', index = False)
to_sql_append(store, name, frame) ==
    IF store[name] # NoTable /\ store[name][1].columns = frame.columns
    THEN [store EXCEPT ![name] =
            <<[columns |-> frame.columns,
               n       |-> store[name][1].n + frame.n,
               data    |-> [i \in 1..Len(frame.columns) |->
                              store[name][1].data[i] \o frame.data[i]]]>>]
    ELSE [store EXCEPT ![name] = <<frame>>]

\* frame.to_sql(name, conn, if_exists = 'replace', index = False): an
\* existing table of that name is dropped and the frame written in its place.
to_sql(store, name, frame) == [store EXCEPT ![name] = <<frame>>]

(***************************************************************************)
(* encode_features                                                         *)
(***************************************************************************)
RECURSIVE EncodeLoop_skip(_, _, _, _)
\* The loop that skips a missing feature instead of returning.
EncodeLoop_skip(features, frame, i, placeholder_df) ==
    IF i > Len(features) THEN [found |-> TRUE, placeholder_df |-> placeholder_df]
    ELSE IF HasColumn(frame, features[i])
         THEN LET encoded == add_prefix(get_dummies(GetColumn(frame, features[i])),
                                        features[i] \o "_")
              IN EncodeLoop_skip(features, frame, i + 1, concat(placeholder_df, encoded))
         ELSE EncodeLoop_skip(features, frame, i + 1, placeholder_df)

RECURSIVE EncodeLoop(_, _, _, _)
\* The loop over FEATURES_TO_ENCODE from position i on: the placeholder
\* frame, or found = FALSE at the first feature that is no column of df.
EncodeLoop(features, frame, i, placeholder_df) ==
    IF i > Len(features) THEN [found |-> TRUE, placeholder_df |-> placeholder_df]
    ELSE IF HasColumn(frame, features[i])
         THEN LET encoded == add_prefix(get_dummies(GetColumn(frame, features[i])),
                                        features[i] \o "_")
              IN EncodeLoop(features, frame, i + 1, concat(placeholder_df, encoded))
         ELSE [found |-> FALSE, placeholder_df |-> placeholder_df]

\* The pass written as if / elif: an input column is never overwritten.
AssembleColumn_elif(encoded_df, frame, placeholder_df, feature) ==
    IF HasColumn(frame, feature)
    THEN SetColumn(encoded_df, feature, GetColumn(frame, feature))
    ELSE IF HasColumn(placeholder_df, feature)
         THEN SetColumn(encoded_df, feature, GetColumn(placeholder_df, feature))
         ELSE encoded_df

\* One pass of the loop over encoded_df.columns.
AssembleColumn(encoded_df, frame, placeholder_df, feature) ==
    LET e1 == IF HasColumn(frame, feature)
              THEN SetColumn(encoded_df, feature, GetColumn(frame, feature))
              ELSE encoded_df
    IN  IF HasColumn(placeholder_df, feature)
        THEN SetColumn(e1, feature, GetColumn(placeholder_df, feature))
        ELSE e1

RECURSIVE AssembleLoop(_, _, _, _)
\* The loop over encoded_df.columns from position i on.
AssembleLoop(encoded_df, frame, placeholder_df, i) ==
    IF i > Len(encoded_df.columns) THEN encoded_df
    ELSE AssembleLoop(
             AssembleColumn(encoded_df, frame, placeholder_df, encoded_df.columns[i]),
             frame, placeholder_df, i + 1)

\* encoded_df built as the input joined with the generated columns, the
\* label added when the input has none.
EncodedFrame_concat(cfg, frame, placeholder_df) ==
    LET joined == concat(frame, placeholder_df)
    IN  fillna(IF HasColumn(joined, LABEL) THEN joined
               ELSE SetColumn(joined, LABEL, <<>>), "0")

\* encoded_df after the fill.
EncodedFrame(cfg, frame, placeholder_df) ==
    fillna(AssembleLoop(DataFrame(cfg.ONE_HOT_ENCODED_FEATURES), frame, placeholder_df, 1),
           "0")

\* The store after the two writes.
WriteTables(store, encoded_df) ==
    to_sql(to_sql(store, "features", drop(encoded_df, LABEL)),
           "target", SeriesFrame(encoded_df, LABEL))

\* encode_features() on a store whose model_input table is model_input.
encode_features(model_input) ==
    LET loop == EncodeLoop(config.FEATURES_TO_ENCODE, model_input, 1, EmptyFrame)
    IN  /\ df' = model_input
        /\ IF loop.found
           THEN /\ db' = WriteTables(db, EncodedFrame(config, model_input, loop.placeholder_df))
                /\ replaced' = (db.features # NoTable /\ db.target # NoTable)
                /\ ret' = [called |-> TRUE, value |-> <<>>]
           ELSE /\ db' = db
                /\ replaced' = FALSE
                /\ ret' = [called |-> TRUE, value |-> <<model_input>>]
        /\ UNCHANGED <<config, runs, registry, trainer>>

(***************************************************************************)
(* sklearn                                                                 *)
(***************************************************************************)
\* ceil(0.3 * n): the size of the test partition for test_size = 0.3.
TestSize(n) == (3 * n + 9) \div 10

\* The orders in which a shuffle can put n_test of n rows in the test
\* partition.
TestRows(n) ==
    {t \in [1..TestSize(n) -> 1..n] : \A i, j \in 1..TestSize(n) : i # j => t[i] # t[j]}

\* The labels of the partition made of the given rows.
Take(labels, rows) == [i \in 1..Len(rows) |-> labels[rows[i]]]

\* The labels of the rows outside the test partition.
TrainLabels(labels, test) ==
    {labels[r] : r \in {r \in 1..Len(labels) : \A i \in 1..Len(test) : test[i] # r}}

\* The classes present, in sorted order.
Classes(y_a, y_b) ==
    SelectSeq(<<"0", "1">>,
              LAMBDA c : (\E i \in 1..Len(y_a) : y_a[i] = c) \/ (\E i \in 1..Len(y_b) : y_b[i] = c))

\* confusion_matrix(y_true, y_pred): entry [i][j] counts the rows whose
\* true class is the i-th label and whose predicted class is the j-th.
confusion_matrix(y_true, y_pred) ==
    LET labels == Classes(y_true, y_pred)
    IN  [i \in 1..Len(labels) |->
           [j \in 1..Len(labels) |->
              Cardinality({r \in 1..Len(y_true) :
                              y_true[r] = labels[i] /\ y_pred[r] = labels[j]})]]

\* roc_auc_score(y_true, y_score) raises ValueError when y_true holds a
\* single class.
roc_auc_score_raises(y_true, y_score) == Len(Classes(y_true, <<>>)) < 2

(***************************************************************************)
(* get_trained_model                                                       *)
(***************************************************************************)
\* conf_mat = confusion_matrix(y_pred, y_test)
MainMatrix(y_test, y_pred) == confusion_matrix(y_pred, y_test)

\* The matrix of the counts read from the main matrix's argument order.
CountMatrix_swapped(y_test, y_pred) == confusion_matrix(y_pred, y_test)

\* cm = confusion_matrix(y_test, y_pred)
CountMatrix(y_test, y_pred) == confusion_matrix(y_test, y_pred)

\* The value logged for a metric that is a real number: not computed here.
Real == "real"

\* The log_metric calls with the key f1_0 used twice and f1_1 never.
LoggedMetrics_dup(cm) ==
    << [key |-> "roc_auc_score",  value |-> Real],
       [key |-> "test_accuracy",  value |-> Real],
       [key |-> "f1",             value |-> Real],
       [key |-> "Precision",      value |-> Real],
       [key |-> "Recall",         value |-> Real],
       [key |-> "Precision_0",    value |-> Real],
       [key |-> "Precision_1",    value |-> Real],
       [key |-> "Recall_0",       value |-> Real],
       [key |-> "Recall_1",       value |-> Real],
       [key |-> "f1_0",           value |-> Real],
       [key |-> "f1_0",           value |-> Real],
       [key |-> "False Negative", value |-> cm[2][1]],
       [key |-> "True Negative",  value |-> cm[1][1]] >>

\* The thirteen log_metric calls, in order.  Python's cm[1][0] is cm[2][1].
LoggedMetrics(cm) ==
    << [key |-> "roc_auc_score",  value |-> Real],
       [key |-> "test_accuracy",  value |-> Real],
       [key |-> "f1",             value |-> Real],
       [key |-> "Precision",      value |-> Real],
       [key |-> "Recall",         value |-> Real],
       [key |-> "Precision_0",    value |-> Real],
       [key |-> "Precision_1",    value |-> Real],
       [key |-> "Recall_0",       value |-> Real],
       [key |-> "Recall_1",       value |-> Real],
       [key |-> "f1_0",           value |-> Real],
       [key |-> "f1_1",           value |-> Real],
       [key |-> "False Negative", value |-> cm[2][1]],
       [key |-> "True Negative",  value |-> cm[1][1]] >>

\* The run after start_run, fit, log_model and log_params.
RunWithModel ==
    [status  |-> "RUNNING",
     events  |-> <<"start_run", "fit", "log_model", "log_params">>,
     metrics |-> <<>>]

\* The with block left by an exception: mlflow ends the run as FAILED.
RunFailed(run) == [run EXCEPT !.status = "FAILED", !.events = Append(@, "end_run")]

\* The with block left normally after the metrics were logged.
RunFinished(run, logged) ==
    [status  |-> "FINISHED",
     events  |-> run.events \o [i \in 1..Len(logged) |-> "log_metric"] \o <<"end_run">>,
     metrics |-> logged]

TrainerIdle ==
    [invocations |-> 0, completed |-> 0, outcome |-> "idle", error |-> "",
     y_test |-> <<>>, y_pred |-> <<>>, conf_mat |-> <<>>, cm |-> <<>>]

\* The invocation ended by an exception before any run was opened.
Raised(error) ==
    [trainer EXCEPT !.invocations = @ + 1, !.outcome = "failed", !.error = error,
                    !.y_test = <<>>, !.y_pred = <<>>, !.conf_mat = <<>>, !.cm = <<>>]

\* get_trained_model() with the test partition the shuffle picks and the
\* labels the fitted model predicts on it.
get_trained_model ==
    /\ trainer.invocations < MaxInvocations
    /\ UNCHANGED <<config, db, df, ret, replaced>>
    /\ IF db.features = NoTable \/ db.target = NoTable
       THEN /\ trainer' = Raised("DatabaseError")
            /\ UNCHANGED <<runs, registry>>
       ELSE LET labels == db.target[1].data[1]
                n      == Len(labels)
            IN  IF db.features[1].n # n \/ n - TestSize(n) = 0
                THEN /\ trainer' = Raised("ValueError")
                     /\ UNCHANGED <<runs, registry>>
                ELSE \E test \in TestRows(n) :
                     \E y_pred \in [1..TestSize(n) -> TrainLabels(labels, test)] :
                        LET y_test   == Take(labels, test)
                            conf_mat == MainMatrix(y_test, y_pred)
                            cm       == CountMatrix(y_test, y_pred)
                        IN  /\ registry' = Append(registry,
                                              [name |-> "LightGBM", run |-> Len(runs) + 1])
                            /\ IF roc_auc_score_raises(y_pred, y_test)
                               THEN /\ runs' = Append(runs, RunFailed(RunWithModel))
                                    /\ trainer' =
                                         [trainer EXCEPT !.invocations = @ + 1,
                                                         !.outcome = "failed",
                                                         !.error = "ValueError",
                                                         !.y_test = y_test,
                                                         !.y_pred = y_pred,
                                                         !.conf_mat = <<>>,
                                                         !.cm = <<>>]
                               ELSE /\ runs' = Append(runs,
                                                 RunFinished(RunWithModel, LoggedMetrics(cm)))
                                    /\ trainer' =
                                         [trainer EXCEPT !.invocations = @ + 1,
                                                         !.completed = @ + 1,
                                                         !.outcome = "done",
                                                         !.error = "",
                                                         !.y_test = y_test,
                                                         !.y_pred = y_pred,
                                                         !.conf_mat = conf_mat,
                                                         !.cm = cm]

(***************************************************************************)
(* Configurations and model_input tables                                   *)
(***************************************************************************)
Configs ==
    { [FEATURES_TO_ENCODE       |-> <<"city", "source">>,
       ONE_HOT_ENCODED_FEATURES |-> <<"city_A", "city_B", "source_X", "source_Y", LABEL>>],
      [FEATURES_TO_ENCODE       |-> <<"city">>,
       ONE_HOT_ENCODED_FEATURES |-> <<"city_B", "source_X", LABEL>>] }

\* The shapes of model_input: its columns and the rows it may hold.
Shapes ==
    { [columns |-> <<"city", "source", LABEL>>,
       rows    |-> {<<"A", "X", "1">>, <<"B", "Y", "0">>, <<"B", "X", "1">>, <<"A", "Y", NaN>>,
                    <<NaN, "X", "0">>}],
      [columns |-> <<"city", "city_A", "source">>,
       rows    |-> {<<"A", "7", "X">>, <<"B", "7", "X">>, <<"B", NaN, "X">>}],
      [columns |-> <<"source">>,
       rows    |-> {<<"X">>}],
      [columns |-> <<"city", LABEL>>,
       rows    |-> {<<"A", "1">>}] }

\* The frame pd.read_sql returns for a table of the given columns and rows.
read_sql(columns, rows) ==
    [columns |-> columns,
     n       |-> Len(rows),
     data    |-> [c \in 1..Len(columns) |-> [r \in 1..Len(rows) |-> rows[r][c]]]]

ModelInputs ==
    UNION { { read_sql(s.columns, rows) : rows \in [1..n -> s.rows] }
            : s \in Shapes, n \in 0..MaxRows }

InitEncode ==
    /\ config \in Configs
    /\ db = FreshStoreTables
    /\ df = EmptyFrame
    /\ ret = [called |-> FALSE, value |-> <<>>]
    /\ replaced = FALSE
    /\ runs = <<>>
    /\ registry = <<>>
    /\ trainer = TrainerIdle

NextEncode == \E model_input \in ModelInputs : encode_features(model_input)

SpecEncode == InitEncode /\ [][NextEncode]_vars

\* The label vectors a target table can hold.
TargetTables ==
    UNION { { [columns |-> <<LABEL>>, n |-> n, data |-> <<labels>>]
              : labels \in [1..n -> {"0", "1"}] } : n \in 0..MaxLabels }

\* A features table of n rows.
FeaturesTable(n) ==
    [columns |-> <<"city_A", "city_B">>,
     n       |-> n,
     data    |-> <<[r \in 1..n |-> "0"], [r \in 1..n |-> "0"]>>]

InitTrain ==
    /\ config \in Configs
    /\ (\/ db = FreshStoreTables
        \/ \E target \in TargetTables :
              db = [features |-> <<FeaturesTable(target.n)>>, target |-> <<target>>])
    /\ df = EmptyFrame
    /\ ret = [called |-> FALSE, value |-> <<>>]
    /\ replaced = FALSE
    /\ runs = <<>>
    /\ registry = <<>>
    /\ trainer = TrainerIdle

NextTrain == get_trained_model

SpecTrain == InitTrain /\ [][NextTrain]_vars

(***************************************************************************)
(* Vocabulary of the properties of encode_features                         *)
(***************************************************************************)
\* The last call wrote the tables and returned None.
Succeeded == ret.called /\ ret.value = <<>>

\* The last call took the 'Feature not found' return.
EarlyReturn == ret.called /\ ret.value # <<>>

\* Position i of FEATURES_TO_ENCODE names no column of frame.
MissingAt(frame, i) ==
    /\ i \in 1..Len(config.FEATURES_TO_ENCODE)
    /\ ~HasColumn(frame, config.FEATURES_TO_ENCODE[i])

AllPresent(frame) == \A i \in 1..Len(config.FEATURES_TO_ENCODE) : ~MissingAt(frame, i)

\* name is <feature>_<value> for an encoded feature and a value some row holds.
GeneratedFrom(frame, name, f) ==
    /\ HasColumn(frame, f)
    /\ \E r \in 1..frame.n :
          /\ GetColumn(frame, f)[r] # NaN
          /\ name = f \o "_" \o GetColumn(frame, f)[r]

Generated(frame, name) ==
    \E i \in 1..Len(config.FEATURES_TO_ENCODE) :
        GeneratedFrom(frame, name, config.FEATURES_TO_ENCODE[i])

Schema == config.ONE_HOT_ENCODED_FEATURES

SchemaNames == {Schema[k] : k \in 1..Len(Schema)}

\* Some name of the schema is an input column or a generated column.
SomeMatch(frame) ==
    \E name \in SchemaNames : HasColumn(frame, name) \/ Generated(frame, name)

TablesExist == db.features # NoTable /\ db.target # NoTable

\* The persisted column of a schema name.
Persisted(name) ==
    IF name = LABEL THEN db.target[1].data[1] ELSE GetColumn(db.features[1], name)

\* An input column with its nulls read as 0.
ZeroForNull(vec) == [r \in 1..Len(vec) |-> IF vec[r] = NaN THEN "0" ELSE vec[r]]

\* The values a category column of the inputs can hold.
CategoryValues == {"A", "B", "X", "Y"}

\* The 0/1 column of "feature f has value v".
Indicator(frame, f, v) ==
    [r \in 1..frame.n |-> IF GetColumn(frame, f)[r] = v THEN "1" ELSE "0"]

SchemaMinusLabel == SelectSeq(Schema, LAMBDA name : name # LABEL)

(***************************************************************************)
(* C1: when a name of FEATURES_TO_ENCODE is no column of model_input, the  *)
(* call leaves the features and target tables exactly as they were and     *)
(* returns the loaded frame, wherever the missing feature stands.          *)
(***************************************************************************)
C1_EarlyReturn ==
    [][ (~AllPresent(df')) =>
            /\ db' = db
            /\ ret' = [called |-> TRUE, value |-> <<df'>>] ]_vars

\* The second feature is missing, the first was expanded, and tables of an
\* earlier successful encode are in the store.
C1_Witness ==
    /\ EarlyReturn
    /\ Len(config.FEATURES_TO_ENCODE) = 2
    /\ ~MissingAt(df, 1) /\ MissingAt(df, 2)
    /\ df.n > 0
    /\ TablesExist
    /\ ret.value = <<df>>

(***************************************************************************)
(* C2: when every feature to encode is present, the features table has     *)
(* exactly the schema's columns minus app_complete_flag, in schema order,  *)
(* and the target table has the single column app_complete_flag.           *)
(***************************************************************************)
C2_Columns ==
    (ret.called /\ AllPresent(df)) =>
        /\ TablesExist
        /\ db.features[1].columns = SchemaMinusLabel
        /\ Len(db.features[1].data) = Len(SchemaMinusLabel)
        /\ db.target[1].columns = <<LABEL>>
        /\ Len(db.target[1].data) = 1

\* A success whose input has a column outside the schema and whose schema
\* has a one-hot column no row produced.
C2_Witness ==
    /\ Succeeded
    /\ df.n > 0
    /\ \E i \in 1..Len(df.columns) : df.columns[i] \notin SchemaNames
    /\ \E name \in SchemaNames :
          name # LABEL /\ ~HasColumn(df, name) /\ ~Generated(df, name)
    /\ \E name \in SchemaNames : Generated(df, name)

(***************************************************************************)
(* C3, as stated: after any call of encode_features, early returns         *)
(* included, the features table, the target table and model_input have     *)
(* the same number of rows.                                                *)
(***************************************************************************)
C3_Original ==
    ret.called =>
        /\ TablesExist
        /\ db.features[1].n = df.n
        /\ db.target[1].n = df.n

(***************************************************************************)
(* C3, amended: after a call that wrote the tables, features and target    *)
(* have the same number of rows; that number is model_input's when some    *)
(* schema name is an input column or a generated column (row i of the      *)
(* target being the label of row i of model_input, 0 for null), and 0      *)
(* when no schema name matches.                                            *)
(***************************************************************************)
C3_RowCounts ==
    Succeeded =>
        /\ TablesExist
        /\ db.features[1].n = db.target[1].n
        /\ \A i \in 1..Len(db.features[1].data) :
              Len(db.features[1].data[i]) = db.features[1].n
        /\ Len(db.target[1].data[1]) = db.target[1].n
        /\ SomeMatch(df) => db.features[1].n = df.n
        /\ (SomeMatch(df) /\ HasColumn(df, LABEL)) =>
              db.target[1].data[1] = ZeroForNull(GetColumn(df, LABEL))
        /\ ~SomeMatch(df) => db.features[1].n = 0

\* Tables of as many rows as a non-empty model_input.
C3_Witness ==
    /\ Succeeded
    /\ SomeMatch(df)
    /\ df.n = MaxRows
    /\ db.features[1].n = MaxRows
    /\ HasColumn(df, LABEL)
    /\ \E r \in 1..df.n : GetColumn(df, LABEL)[r] = NaN

\* A non-empty model_input none of whose columns, given or generated, is
\* in the schema: the tables are written without rows.
C3_NoMatchWitness ==
    /\ Succeeded
    /\ ~SomeMatch(df)
    /\ df.n > 0
    /\ db.features[1].n = 0

(***************************************************************************)
(* C4: no cell of a persisted table is null, and a cell with no source     *)
(* value (a schema column that is neither an input column nor a generated  *)
(* one, a null cell of a copied input column) is 0.                        *)
(***************************************************************************)
C4_NoNull ==
    /\ TablesExist =>
          /\ \A i \in 1..Len(db.features[1].data) :
                \A r \in 1..Len(db.features[1].data[i]) :
                    db.features[1].data[i][r] # NaN
          /\ \A r \in 1..Len(db.target[1].data[1]) : db.target[1].data[1][r] # NaN
    /\ Succeeded =>
          \A name \in SchemaNames :
              /\ (~HasColumn(df, name) /\ ~Generated(df, name)) =>
                    \A r \in 1..Len(Persisted(name)) : Persisted(name)[r] = "0"
              /\ (HasColumn(df, name) /\ ~Generated(df, name)) =>
                    \A r \in 1..df.n :
                        GetColumn(df, name)[r] = NaN => Persisted(name)[r] = "0"

\* Rows were written with a schema column that has no source and with a
\* null cell in a copied input column.
C4_Witness ==
    /\ Succeeded
    /\ db.features[1].n > 0
    /\ \E name \in SchemaNames :
          name # LABEL /\ ~HasColumn(df, name) /\ ~Generated(df, name)
    /\ \E name \in SchemaNames :
          /\ HasColumn(df, name) /\ ~Generated(df, name)
          /\ \E r \in 1..df.n : GetColumn(df, name)[r] = NaN

(***************************************************************************)
(* C5, as stated: after a call that wrote the tables, for every row r of   *)
(* model_input, encoded feature f and schema column f_v, the features      *)
(* cell (r, f_v) is 1 when r's value of f is v and 0 otherwise, and the    *)
(* target cell of r is r's app_complete_flag (0 for a null one).           *)
(***************************************************************************)
C5_Original ==
    Succeeded =>
        /\ db.features[1].n = df.n
        /\ \A i \in 1..Len(config.FEATURES_TO_ENCODE) : \A v \in CategoryValues :
              LET f == config.FEATURES_TO_ENCODE[i]
              IN  (f \o "_" \o v) \in SchemaNames =>
                      Persisted(f \o "_" \o v) = Indicator(df, f, v)
        /\ HasColumn(df, LABEL) => Persisted(LABEL) = ZeroForNull(GetColumn(df, LABEL))

\* The model_input of the end-to-end scenario.
ExampleInput ==
    read_sql(<<"city", "source", LABEL>>, << <<"A", "X", "1">>, <<"B", "Y", "0">> >>)

ExampleSchema == <<"city_A", "city_B", "source_X", "source_Y", LABEL>>

(***************************************************************************)
(* C5, amended: after a call that wrote the tables from a model_input      *)
(* that matches some schema name, for every row r, encoded feature f and   *)
(* schema column f_v such that v is observed in f or f_v is no input       *)
(* column, the features cell (r, f_v) is 1 when r's value of f is v and 0  *)
(* otherwise; the target cell of r is r's app_complete_flag, 0 when that   *)
(* is null or model_input has no such column.  The scenario's rows         *)
(* [(A,X,1),(B,Y,0)] give features [(1,0,1,0),(0,1,0,1)] and target [1,0]. *)
(***************************************************************************)
C5_OneHot ==
    /\ (Succeeded /\ SomeMatch(df)) =>
          /\ db.features[1].n = df.n
          /\ \A i \in 1..Len(config.FEATURES_TO_ENCODE) : \A v \in CategoryValues :
                LET f    == config.FEATURES_TO_ENCODE[i]
                    name == f \o "_" \o v
                IN  (name \in SchemaNames /\ (Generated(df, name) \/ ~HasColumn(df, name))) =>
                        Persisted(name) = Indicator(df, f, v)
          /\ Persisted(LABEL) = IF HasColumn(df, LABEL)
                                THEN ZeroForNull(GetColumn(df, LABEL))
                                ELSE [r \in 1..df.n |-> "0"]
    /\ (Succeeded /\ df = ExampleInput /\ Schema = ExampleSchema) =>
          /\ db.features[1].columns = <<"city_A", "city_B", "source_X", "source_Y">>
          /\ db.features[1].data = << <<"1", "0">>, <<"0", "1">>, <<"1", "0">>, <<"0", "1">> >>
          /\ db.target[1].data = << <<"1", "0">> >>

\* The scenario has been encoded.
C5_Witness ==
    /\ Succeeded
    /\ df = ExampleInput
    /\ Schema = ExampleSchema
    /\ config.FEATURES_TO_ENCODE = <<"city", "source">>

(***************************************************************************)
(* C6: after a call that wrote the tables, the two tables are those a      *)
(* single call on the same model_input writes into a store without         *)
(* features and target tables: nothing of the earlier tables remains.      *)
(***************************************************************************)
C6_ReplaceOnWrite ==
    Succeeded =>
        db = WriteTables(FreshStoreTables,
                 EncodedFrame(config, df,
                     EncodeLoop(config.FEATURES_TO_ENCODE, df, 1, EmptyFrame).placeholder_df))

\* Tables with rows written over the tables of an earlier encode.
C6_Witness ==
    /\ Succeeded
    /\ replaced
    /\ db.features[1].n > 0
    /\ db.features[1].n < MaxRows

(***************************************************************************)
(* C10, as stated: a schema name that is an input column is persisted      *)
(* with the input's values (nulls filled with 0), also when it names a     *)
(* generated one-hot column as well.                                       *)
(***************************************************************************)
C10_Original ==
    (Succeeded /\ SomeMatch(df)) =>
        \A name \in SchemaNames :
            HasColumn(df, name) => Persisted(name) = ZeroForNull(GetColumn(df, name))

(***************************************************************************)
(* C10, amended: a schema name that names a generated one-hot column is    *)
(* persisted with the generated indicator, also when it is an input        *)
(* column as well; the input's values (nulls filled with 0) are persisted  *)
(* only for a name that is an input column and no generated column.        *)
(***************************************************************************)
C10_Assembly ==
    (Succeeded /\ SomeMatch(df)) =>
        \A name \in SchemaNames :
            /\ (HasColumn(df, name) /\ ~Generated(df, name)) =>
                  Persisted(name) = ZeroForNull(GetColumn(df, name))
            /\ \A i \in 1..Len(config.FEATURES_TO_ENCODE) : \A v \in CategoryValues :
                  LET f == config.FEATURES_TO_ENCODE[i]
                  IN  (name = f \o "_" \o v /\ Generated(df, name)) =>
                          Persisted(name) = Indicator(df, f, v)

\* city_A is an input column and a generated column, and the two differ.
C10_Witness ==
    /\ Succeeded
    /\ HasColumn(df, "city_A")
    /\ Generated(df, "city_A")
    /\ "city_A" \in SchemaNames
    /\ Persisted("city_A") # ZeroForNull(GetColumn(df, "city_A"))
    /\ Persisted("city_A") = Indicator(df, "city", "A")

(***************************************************************************)
(* Vocabulary of the properties of get_trained_model                       *)
(***************************************************************************)
\* The run of the last invocation, when it opened one.
LastRun == runs[Len(runs)]

SingleClass(y) == \A i, j \in 1..Len(y) : y[i] = y[j]

MetricKeys(run) == {run.metrics[i].key : i \in 1..Len(run.metrics)}

MetricValue(run, key) ==
    run.metrics[CHOOSE i \in 1..Len(run.metrics) : run.metrics[i].key = key].value

ThirteenKeys ==
    {"roc_auc_score", "test_accuracy", "f1", "Precision", "Recall", "Precision_0",
     "Precision_1", "Recall_0", "Recall_1", "f1_0", "f1_1", "False Negative",
     "True Negative"}

\* The rows of the test partition with the given actual and predicted label.
Count(actual, predicted) ==
    Cardinality({i \in 1..Len(trainer.y_test) :
                    trainer.y_test[i] = actual /\ trainer.y_pred[i] = predicted})

(***************************************************************************)
(* C7: when the actual labels of the test partition are all of one class,  *)
(* the invocation fails and no metric is logged, whatever the model        *)
(* predicts.                                                               *)
(***************************************************************************)
C7_Claim ==
    (trainer.y_test # <<>> /\ SingleClass(trainer.y_test)) =>
        /\ trainer.outcome = "failed"
        /\ LastRun.metrics = <<>>

(***************************************************************************)
(* C8: every completed invocation adds exactly one run, whose events are   *)
(* start_run, fit, log_model (registered as LightGBM), log_params,         *)
(* thirteen log_metric of thirteen distinct keys, end_run; between         *)
(* invocations no run is open; when every invocation completed there are   *)
(* as many runs as invocations; a run already closed never changes.        *)
(***************************************************************************)
C8_Lifecycle ==
    /\ [](/\ \A i \in 1..Len(runs) : runs[i].status # "RUNNING"
          /\ \A i \in 1..Len(runs) :
                runs[i].status = "FINISHED" =>
                    /\ runs[i].events =
                          <<"start_run", "fit", "log_model", "log_params">>
                          \o [k \in 1..13 |-> "log_metric"] \o <<"end_run">>
                    /\ Len(runs[i].metrics) = 13
                    /\ MetricKeys(runs[i]) = ThirteenKeys
                    /\ \E k \in 1..Len(registry) :
                          registry[k] = [name |-> "LightGBM", run |-> i]
          /\ Cardinality({i \in 1..Len(runs) : runs[i].status = "FINISHED"})
                = trainer.completed
          /\ trainer.completed = trainer.invocations => Len(runs) = trainer.invocations)
    /\ [][/\ \A i \in 1..Len(runs) : Len(runs') >= i /\ runs'[i] = runs[i]
          /\ trainer'.completed = trainer.completed + 1 =>
                /\ Len(runs') = Len(runs) + 1
                /\ runs'[Len(runs')].status = "FINISHED"]_vars

\* Two invocations completed one after the other.
C8_Witness ==
    /\ trainer.invocations = 2
    /\ trainer.completed = 2
    /\ Len(runs) = 2
    /\ runs[1].status = "FINISHED" /\ runs[2].status = "FINISHED"

(***************************************************************************)
(* C9: in a completed invocation the logged False Negative is the number   *)
(* of test rows of actual label 1 predicted 0 and the logged True Negative *)
(* the number of actual label 0 predicted 0; both come from the matrix of  *)
(* (actual, predicted) order, which is the transpose of the main matrix.   *)
(***************************************************************************)
C9_Counts ==
    trainer.outcome = "done" =>
        /\ MetricValue(LastRun, "False Negative") = Count("1", "0")
        /\ MetricValue(LastRun, "True Negative") = Count("0", "0")
        /\ MetricValue(LastRun, "False Negative") = trainer.cm[2][1]
        /\ MetricValue(LastRun, "True Negative") = trainer.cm[1][1]
        /\ Len(trainer.cm) = 2 /\ Len(trainer.conf_mat) = 2
        /\ \A i, j \in 1..2 : trainer.conf_mat[i][j] = trainer.cm[j][i]

\* A completed invocation with a false negative and no false positive.
C9_Witness ==
    /\ trainer.outcome = "done"
    /\ Count("1", "0") > 0
    /\ Count("0", "1") = 0
    /\ MetricValue(LastRun, "False Negative") > 0
    /\ \E i \in 1..Len(trainer.y_pred) : trainer.y_pred[i] = "1"

====
